---- MODULE Spec2Model ----
(***************************************************************************)
(* Offer lifecycle and portfolio awarding of aipick-game-be.               *)
(*                                                                         *)
(*   PortfolioOfferServiceImpl  generateOffers, syncOffersPrices,          *)
(*                              markOfferCompleted                         *)
(*   PortfolioServiceImpl       create, awardPortfolios                    *)
(*   MongoPortfolioRepository   find, existsByUserIdAndOfferId, create,    *)
(*                              updateOneById                              *)
(*                                                                         *)
(* Every await of the code is a step boundary: a request or a cron run is  *)
(* a small process whose local values (the lists it fetched, the day it    *)
(* read) are kept in its record between steps.                             *)
(***************************************************************************)
EXTENDS Integers, Sequences, FiniteSets, TLC

VARIABLES
    currentDay,   \* getCurrentDayInUtc()
    offers,       \* the offers collection; an offer's id is its index
    portfolios,   \* the portfolios collection; a portfolio's id is its index
    balance,      \* User.balance of every user
    genRun,       \* the generateOffers runs in flight
    syncRun,      \* the syncOffersPrices runs in flight
    awardRun,     \* the awardPortfolios runs in flight
    createReq,    \* the create requests in flight
    awardCommits, \* history: committed award transactions per portfolio
    genHistory    \* history: the days on which generateOffers runs ended

vars == <<currentDay, offers, portfolios, balance, genRun, syncRun, awardRun,
          createReq, awardCommits, genHistory>>

----------------------------------------------------------------------------
(* Bounds of the model *)

\* the clock runs from day 0 to MaxDay
MaxDay == 1
\* the portfolios collection holds at most MaxPortfolios documents
MaxPortfolios == 2
\* the offers collection holds at most MaxOffers documents
MaxOffers == 8
\* size of the token universe (@portfolio/data/tokens)
NumTokens == 12
\* where only generateOffers runs, the clock runs from day 0 to MaxGenDay
MaxGenDay == 16
\* and the offers collection holds at most MaxGenOffers documents
MaxGenOffers == 24

(* Program constants *)

MAX_DAYS_THRESHOLD == 3
OFFERS_TO_GENERATE == 7
MAX_TOKEN_OFFERS == 6
DefaultBalance == 1000

Tokens == 1..NumTokens
\* a string that is no token of the universe, as a client may send it
BadToken == NumTokens + 1

Users == {"u1", "u2"}
\* an id that is no user's / no offer's
NoUser == "nobody"
NoOffer == MaxOffers + 1

GenIds == {"g1", "g2"}
SyncIds == {"s1", "s2"}
AwardIds == {"a1", "a2"}
CreateIds == {"c1", "c2"}

WaitingForPricing == "WaitingForPricing"
WaitingForCompletion == "WaitingForCompletion"
Completed == "Completed"

\* lodash sampleSize(tokens, n): n distinct tokens in some order; the orders
\* the model draws from are the rotations of the universe
SampleOffsets == {0, 1}

sampleSize(offset, n) ==
    [i \in 1..n |-> ((offset + i - 1) % NumTokens) + 1]

\* an empty pricingChanges map
EmptyMap == [t \in {} |-> 0]

\* the ids in use
PortfolioIds == 1..Len(portfolios)
OfferIds == 1..Len(offers)

\* the ids of the documents of a collection, in store order
Ids(coll) == [i \in 1..Len(coll) |-> i]

----------------------------------------------------------------------------
(* The clock *)

\* midnight UTC; genHistory.everyDay tells whether, since the first
\* generateOffers run ended, a run has ended on every day that has passed
Tick(maxDay) ==
    /\ currentDay < maxDay
    /\ currentDay' = currentDay + 1
    /\ genHistory' = [genHistory EXCEPT !.everyDay =
          @ /\ (genHistory.ran => genHistory.lastRunDay = currentDay)]
    /\ UNCHANGED <<offers, portfolios, balance, genRun, syncRun, awardRun,
                   createReq, awardCommits>>

----------------------------------------------------------------------------
(* PortfolioOfferServiceImpl.generateOffers *)

GenIdle == [pc |-> "idle", hasLast |-> FALSE, lastDay |-> 0]

\* portfolioOfferRepository.findLatest(): the offer with the greatest day
findLatestDay ==
    LET days == {offers[i].day : i \in 1..Len(offers)}
    IN  CHOOSE d \in days : \A e \in days : e <= d

\* the batch of a loop that goes one day beyond nextOfferDay +
\* OFFERS_TO_GENERATE
buildOffersLonger(nextOfferDay, offset) ==
    [k \in 1..(OFFERS_TO_GENERATE + 2) |->
        LET day == nextOfferDay + k - 1
            availableTokens == sampleSize(offset + k - 1, MAX_TOKEN_OFFERS * 2)
        IN  [day |-> day,
             tokenOffers |-> [index \in 1..MAX_TOKEN_OFFERS |->
                 [firstToken |-> availableTokens[(index - 1) * 2 + 1],
                  secondToken |-> availableTokens[(index - 1) * 2 + 2]]]]]

\* the batch of a loop that stops before nextOfferDay + OFFERS_TO_GENERATE
buildOffersExclusive(nextOfferDay, offset) ==
    [k \in 1..OFFERS_TO_GENERATE |->
        LET day == nextOfferDay + k - 1
            availableTokens == sampleSize(offset + k - 1, MAX_TOKEN_OFFERS * 2)
        IN  [day |-> day,
             tokenOffers |-> [index \in 1..MAX_TOKEN_OFFERS |->
                 [firstToken |-> availableTokens[(index - 1) * 2 + 1],
                  secondToken |-> availableTokens[(index - 1) * 2 + 2]]]]]

\* the offers of one batch, lines 91-106: the days nextOfferDay to
\* nextOfferDay + OFFERS_TO_GENERATE, both included (date is left out, it is
\* a function of day)
buildOffers(nextOfferDay, offset) ==
    [k \in 1..(OFFERS_TO_GENERATE + 1) |->
        LET day == nextOfferDay + k - 1
            availableTokens == sampleSize(offset + k - 1, MAX_TOKEN_OFFERS * 2)
        IN  [day |-> day,
             tokenOffers |-> [index \in 1..MAX_TOKEN_OFFERS |->
                 [firstToken |-> availableTokens[(index - 1) * 2 + 1],
                  secondToken |-> availableTokens[(index - 1) * 2 + 2]]]]]

\* portfolioOfferRepository.createMany: a new offer waits for its prices
createMany(batch) ==
    offers \o [k \in 1..Len(batch) |->
                 [day |-> batch[k].day,
                  tokenOffers |-> batch[k].tokenOffers,
                  offerStatus |-> WaitingForPricing,
                  pricingChanges |-> EmptyMap]]

\* portfolioOfferRepository.updateOneById(id, update): the fields of update
\* replace those of the offer with that id
offerUpdateOneById(id, update) ==
    [offers EXCEPT ![id] = update @@ @]

\* lines 73-77
markOfferCompleted(offerId) ==
    offerUpdateOneById(offerId, [offerStatus |-> Completed])

\* line 81: await findLatest()
GenFindLatest(r, maxOffers) ==
    /\ genRun[r].pc = "idle"
    /\ Len(offers) + OFFERS_TO_GENERATE + 1 <= maxOffers
    /\ genRun' = [genRun EXCEPT ![r] =
          [pc |-> "found",
           hasLast |-> Len(offers) > 0,
           lastDay |-> IF Len(offers) > 0 THEN findLatestDay ELSE 0]]
    /\ UNCHANGED <<genHistory, currentDay, offers, portfolios, balance, syncRun, awardRun,
                   createReq, awardCommits>>

\* the guard left out
dayGapIgnored(nextOfferDay, day) == FALSE

\* the guard with >= in the place of >
dayGapReached(nextOfferDay, day) ==
    nextOfferDay - day >= MAX_DAYS_THRESHOLD

\* line 87
dayGapExceeded(nextOfferDay, day) ==
    nextOfferDay - day > MAX_DAYS_THRESHOLD

\* lines 83-108: the day is read after the await, the guard, the batch and
\* createMany; offsets are the samples sampleSize may draw
GenCreateMany(r, offsets, maxOffers) ==
    /\ genRun[r].pc = "found"
    /\ LET nextOfferDay == IF genRun[r].hasLast THEN genRun[r].lastDay + 1
                           ELSE currentDay
       IN  IF dayGapExceeded(nextOfferDay, currentDay)
           THEN UNCHANGED offers
           ELSE /\ Len(offers) + OFFERS_TO_GENERATE + 1 <= maxOffers
                /\ \E offset \in offsets :
                      offers' = createMany(buildOffers(nextOfferDay, offset))
    /\ genRun' = [genRun EXCEPT ![r] = GenIdle]
    /\ genHistory' = [genHistory EXCEPT !.ran = TRUE,
                                        !.lastRunDay = currentDay]
    /\ UNCHANGED <<currentDay, portfolios, balance, syncRun, awardRun,
                   createReq, awardCommits>>

----------------------------------------------------------------------------
(* The Pricing Gateway: coinsApi.getCoinPriceForDay(token, day) *)

\* the price movements the gateway is drawn from
PricePatterns == {1, 2}

\* end-of-day prices of the first tokens under a price movement; every token
\* starts the day at 2 and the tokens the table leaves out end it at 2
EndDayPrices(pattern) ==
    IF pattern = 1 THEN <<4, 0, 4, 0, 2, 0>> ELSE <<0, 6, 2, 6>>

Price(pattern, token) ==
    [kind |-> "price",
     startDayPrice |-> 2,
     endDayPrice |-> IF token <= Len(EndDayPrices(pattern))
                     THEN EndDayPrices(pattern)[token] ELSE 2]

Absent == [kind |-> "absent", startDayPrice |-> 0, endDayPrice |-> 0]
Failure == [kind |-> "error", startDayPrice |-> 0, endDayPrice |-> 0]

OfferTokens(tokenOffers) ==
    {tokenOffers[i].firstToken : i \in 1..Len(tokenOffers)}
        \cup {tokenOffers[i].secondToken : i \in 1..Len(tokenOffers)}

\* the tokens whose lookup the model lets fail: the first token of the first
\* pair, the second token of a middle pair and of the last pair
FailingTokens(tokenOffers) ==
    {tokenOffers[1].firstToken,
     tokenOffers[(Len(tokenOffers) + 1) \div 2].secondToken,
     tokenOffers[Len(tokenOffers)].secondToken}

\* what the gateway answers to the lookups of one offer: a price for every
\* token, or a price for every token but one, whose lookup returns the
\* absence signal or throws
GatewayResponses(tokenOffers, patterns) ==
    {[t \in Tokens |-> Price(p, t)] : p \in patterns}
        \cup {[t \in Tokens |-> IF t = a THEN Absent ELSE Price(1, t)] :
                 a \in FailingTokens(tokenOffers)}
        \cup {[t \in Tokens |-> IF t = tokenOffers[1].secondToken
                                THEN Failure ELSE Price(1, t)]}

\* @common/utils calculatePercentageChange
calculatePercentageChange(startDayPrice, endDayPrice) ==
    (endDayPrice - startDayPrice) \div startDayPrice

----------------------------------------------------------------------------
(* PortfolioOfferServiceImpl.syncOffersPrices *)

\* lookupPairs that keeps the price change of a pair's first token only
RECURSIVE lookupFirstTokens(_, _, _, _)
lookupFirstTokens(tokenOffers, response, index, pricingChanges) ==
    IF index > Len(tokenOffers)
    THEN [update |-> TRUE, shouldSkipOffer |-> FALSE,
          pricingChanges |-> pricingChanges]
    ELSE LET first == tokenOffers[index].firstToken
             second == tokenOffers[index].secondToken
             absent == \E t \in {first, second} : response[t].kind = "absent"
             failed == \E t \in {first, second} : response[t].kind = "error"
         IN  IF absent \/ failed
             THEN [update |-> FALSE, shouldSkipOffer |-> absent,
                   pricingChanges |-> pricingChanges]
             ELSE lookupFirstTokens(tokenOffers, response, index + 1,
                     (first :> calculatePercentageChange(
                                   response[first].startDayPrice,
                                   response[first].endDayPrice))
                        @@ pricingChanges)

\* lines 124-148 for one offer: the pairs in order, the two lookups of a pair
\* together. A lookup that throws rejects the pair's Promise.all; a lookup
\* that returns the absence signal sets shouldSkipOffer and then throws on
\* pricing.startDayPrice. Either way the offer's update is not reached.
RECURSIVE lookupPairs(_, _, _, _)
lookupPairs(tokenOffers, response, index, pricingChanges) ==
    IF index > Len(tokenOffers)
    THEN [update |-> TRUE, shouldSkipOffer |-> FALSE,
          pricingChanges |-> pricingChanges]
    ELSE LET first == tokenOffers[index].firstToken
             second == tokenOffers[index].secondToken
             pair == {first, second}
             absent == \E t \in pair : response[t].kind = "absent"
             failed == \E t \in pair : response[t].kind = "error"
             priced == {t \in pair : response[t].kind = "price"}
             written == [t \in priced |->
                            calculatePercentageChange(response[t].startDayPrice,
                                                      response[t].endDayPrice)]
         IN  IF absent \/ failed
             THEN [update |-> FALSE, shouldSkipOffer |-> absent,
                   pricingChanges |-> written @@ pricingChanges]
             ELSE lookupPairs(tokenOffers, response, index + 1,
                              written @@ pricingChanges)

\* priceOffer without the skip: the update is made with what was looked up
priceOfferAnyway(tokenOffers, response) ==
    [lookupPairs(tokenOffers, response, 1, EmptyMap) EXCEPT !.update = TRUE]

priceOffer(tokenOffers, response) ==
    lookupPairs(tokenOffers, response, 1, EmptyMap)

\* portfolioOfferRepository.findByOfferStatus(status, maxDay)
findByOfferStatus(status, maxDay) ==
    LET Test(i) == offers[i].offerStatus = status /\ offers[i].day <= maxDay
    IN  SelectSeq(Ids(offers), Test)

SyncIdle == [pc |-> "idle", offers |-> << >>, shouldSkipOffer |-> FALSE]

\* lines 113-120
SyncFind(r) ==
    /\ syncRun[r].pc = "idle"
    /\ LET found == findByOfferStatus(WaitingForPricing, currentDay)
       IN  syncRun' = [syncRun EXCEPT ![r] =
              IF found = << >> THEN SyncIdle
              ELSE [pc |-> "loop", offers |-> found, shouldSkipOffer |-> FALSE]]
    /\ UNCHANGED <<genHistory, currentDay, offers, portfolios, balance, genRun, awardRun,
                   createReq, awardCommits>>

\* SyncOffer with the try around the loop over the offers: an offer whose
\* lookups fail ends the run
SyncOfferAbort(r, patterns) ==
    /\ syncRun[r].pc = "loop"
    /\ LET id == Head(syncRun[r].offers)
           rest == Tail(syncRun[r].offers)
       IN  \E response \in GatewayResponses(offers[id].tokenOffers, patterns) :
              LET result == priceOffer(offers[id].tokenOffers, response)
              IN  /\ offers' = IF result.update
                               THEN offerUpdateOneById(id,
                                       [offerStatus |-> WaitingForCompletion,
                                        pricingChanges |-> result.pricingChanges])
                               ELSE offers
                  /\ syncRun' = [syncRun EXCEPT ![r] =
                        IF result.update
                        THEN [pc |-> IF rest = << >> THEN "idle" ELSE "loop",
                              offers |-> rest,
                              shouldSkipOffer |-> result.shouldSkipOffer]
                        ELSE [SyncIdle EXCEPT
                                 !.shouldSkipOffer = result.shouldSkipOffer]]
    /\ UNCHANGED <<genHistory, currentDay, portfolios, balance, genRun,
                   awardRun, createReq, awardCommits>>

\* lines 122-159, one iteration: the lookups of the offer at the head of the
\* list and its updateOneById; patterns are the price movements the gateway
\* may report
SyncOffer(r, patterns) ==
    /\ syncRun[r].pc = "loop"
    /\ LET id == Head(syncRun[r].offers)
           rest == Tail(syncRun[r].offers)
       IN  \E response \in GatewayResponses(offers[id].tokenOffers, patterns) :
              LET result == priceOffer(offers[id].tokenOffers, response)
              IN  /\ offers' = IF result.update
                               THEN offerUpdateOneById(id,
                                       [offerStatus |-> WaitingForCompletion,
                                        pricingChanges |-> result.pricingChanges])
                               ELSE offers
                  /\ syncRun' = [syncRun EXCEPT ![r] =
                        [pc |-> IF rest = << >> THEN "idle" ELSE "loop",
                         offers |-> rest,
                         shouldSkipOffer |-> result.shouldSkipOffer]]
    /\ UNCHANGED <<genHistory, currentDay, portfolios, balance, genRun,
                   awardRun, createReq, awardCommits>>

----------------------------------------------------------------------------
(* PortfolioServiceImpl.create *)

CreateIdle == [pc |-> "idle", userId |-> NoUser, offerId |-> NoOffer,
               selectedTokens |-> << >>, checkedDay |-> 0]

\* the selectedTokens a client sends for an offer: the first token of every
\* pair, the second token of every pair but with the token of the first
\* position repeated at the last, a list of the right length whose last
\* entry is no token at all, a list that is one entry short
Selections(tokenOffers) ==
    LET n == Len(tokenOffers)
    IN  {[i \in 1..n |-> tokenOffers[i].firstToken],
         [i \in 1..n |-> IF i = n THEN tokenOffers[1].secondToken
                         ELSE tokenOffers[i].secondToken],
         [i \in 1..n |-> IF i = n THEN BadToken ELSE tokenOffers[i].firstToken],
         [i \in 1..(n - 1) |-> tokenOffers[i].firstToken]}

\* lines 142-152: throws on a wrong length, otherwise returns what every()
\* returns
validateSelectedTokens(selectedTokens, tokenOffers) ==
    IF Len(selectedTokens) # Len(tokenOffers)
    THEN [thrown |-> TRUE, value |-> FALSE]
    ELSE [thrown |-> FALSE,
          value |-> \A index \in 1..Len(selectedTokens) :
                       \/ tokenOffers[index].firstToken = selectedTokens[index]
                       \/ tokenOffers[index].secondToken = selectedTokens[index]]

\* line 74: the call's return value is dropped, only a throw rejects
selectionRejected(selectedTokens, tokenOffers) ==
    validateSelectedTokens(selectedTokens, tokenOffers).thrown

\* MongoPortfolioRepository.existsByUserIdAndOfferId
existsByUserIdAndOfferId(userId, offerId) ==
    \E p \in 1..Len(portfolios) :
        portfolios[p].user = userId /\ portfolios[p].offer = offerId

\* the requests a client may send: any user id, any offer id, and for an
\* offer that exists the selections above
Requests ==
    {[userId |-> userId, offerId |-> offerId, selectedTokens |-> selectedTokens] :
        userId \in Users \cup {NoUser}, offerId \in {NoOffer},
        selectedTokens \in {<< >>}}
      \cup UNION {
        {[userId |-> userId, offerId |-> offerId, selectedTokens |-> selectedTokens] :
            userId \in Users \cup {NoUser},
            selectedTokens \in Selections(offers[offerId].tokenOffers)} :
        offerId \in OfferIds}

\* createRejects without the day check of line 70
createRejectsNoDayCheck(params) ==
    IF params.offerId = NoOffer THEN TRUE
    ELSE IF params.userId = NoUser THEN TRUE
    ELSE selectionRejected(params.selectedTokens,
                           offers[params.offerId].tokenOffers)

\* lines 58-74: what makes create throw before it asks for an existing
\* portfolio
createRejects(params) ==
    IF params.offerId = NoOffer THEN TRUE
    ELSE IF params.userId = NoUser THEN TRUE
    ELSE IF offers[params.offerId].day # currentDay + 1 THEN TRUE
    ELSE selectionRejected(params.selectedTokens,
                           offers[params.offerId].tokenOffers)

\* lines 58-74: the offer, the user, the day check and the token check. A
\* request that is rejected ends here and leaves no trace.
CreateValidate(c) ==
    /\ createReq[c].pc = "idle"
    /\ Len(portfolios) < MaxPortfolios
    /\ \/ /\ {params \in Requests : createRejects(params)} # {}
          /\ createReq' = createReq
       \/ \E params \in {request \in Requests : ~createRejects(request)} :
             /\ createReq' = [createReq EXCEPT ![c] =
                   [pc |-> "validated", userId |-> params.userId,
                    offerId |-> params.offerId,
                    selectedTokens |-> params.selectedTokens,
                    checkedDay |-> currentDay]]
    /\ UNCHANGED <<genHistory, currentDay, offers, portfolios, balance, genRun, syncRun,
                   awardRun, awardCommits>>

\* lines 76-83
CreateExists(c) ==
    /\ createReq[c].pc = "validated"
    /\ createReq' = [createReq EXCEPT ![c] =
          IF existsByUserIdAndOfferId(createReq[c].userId, createReq[c].offerId)
          THEN CreateIdle
          ELSE [@ EXCEPT !.pc = "checked"]]
    /\ UNCHANGED <<genHistory, currentDay, offers, portfolios, balance, genRun, syncRun,
                   awardRun, awardCommits>>

\* lines 85-90 and MongoPortfolioRepository.create; a portfolio that is not
\* awarded has no earnedPoints, which reads 0 here
CreateInsert(c) ==
    /\ createReq[c].pc = "checked"
    /\ Len(portfolios) < MaxPortfolios
    /\ portfolios' = Append(portfolios,
          [user |-> createReq[c].userId,
           offer |-> createReq[c].offerId,
           selectedTokens |-> createReq[c].selectedTokens,
           isAwarded |-> FALSE,
           earnedPoints |-> 0])
    /\ awardCommits' = Append(awardCommits, 0)
    /\ createReq' = [createReq EXCEPT ![c] = CreateIdle]
    /\ UNCHANGED <<genHistory, currentDay, offers, balance, genRun, syncRun, awardRun>>

----------------------------------------------------------------------------
(* PortfolioServiceImpl.awardPortfolios *)

AwardIdle == [pc |-> "idle", offers |-> << >>, portfolios |-> << >>,
              todo |-> << >>, failed |-> FALSE]

\* listOffersWaitingForCompletion(): the documents as they are when read
listOffersWaitingForCompletion ==
    LET Test(i) == offers[i].offerStatus = WaitingForCompletion
        ids == SelectSeq(Ids(offers), Test)
    IN  [k \in 1..Len(ids) |->
            [id |-> ids[k], priceChanges |-> offers[ids[k]].pricingChanges]]

\* find without the isAwarded filter of line 75
findAnyAward(isAwarded, offerIds) ==
    LET Test(p) == portfolios[p].offer \in offerIds
    IN  SelectSeq(Ids(portfolios), Test)

\* MongoPortfolioRepository.find({isAwarded, offerIds})
find(isAwarded, offerIds) ==
    LET Test(p) == /\ portfolios[p].offer \in offerIds
                   /\ portfolios[p].isAwarded = isAwarded
    IN  SelectSeq(Ids(portfolios), Test)

\* groupedPortfolios[offerId] || []
grouped(fetched, offerId) ==
    LET Test(p) == portfolios[p].offer = offerId
    IN  SelectSeq(fetched, Test)

\* the reduce made over the distinct selected tokens: a token met again is
\* passed over
RECURSIVE reducePointsOnce(_, _, _, _)
reducePointsOnce(selectedTokens, offerPriceChanges, index, points) ==
    IF index > Len(selectedTokens)
    THEN [thrown |-> FALSE, points |-> points]
    ELSE IF selectedTokens[index] \notin DOMAIN offerPriceChanges
         THEN [thrown |-> TRUE, points |-> points]
         ELSE reducePointsOnce(selectedTokens, offerPriceChanges, index + 1,
                 IF \E earlier \in 1..(index - 1) :
                       selectedTokens[earlier] = selectedTokens[index]
                 THEN points
                 ELSE points + offerPriceChanges[selectedTokens[index]])

\* lines 113-121: the reduce over the selected tokens; it throws when a
\* selected token has no number in the offer's price changes
RECURSIVE reducePoints(_, _, _, _)
reducePoints(selectedTokens, offerPriceChanges, index, points) ==
    IF index > Len(selectedTokens)
    THEN [thrown |-> FALSE, points |-> points]
    ELSE IF selectedTokens[index] \notin DOMAIN offerPriceChanges
         THEN [thrown |-> TRUE, points |-> points]
         ELSE reducePoints(selectedTokens, offerPriceChanges, index + 1,
                           points + offerPriceChanges[selectedTokens[index]])

earnedPointsOf(selectedTokens, offerPriceChanges) ==
    reducePoints(selectedTokens, offerPriceChanges, 1, 0)

\* updateOneById that drops the earnedPoints of the update
updateOneByIdFlagOnly(id, earnedPoints) ==
    [portfolios EXCEPT ![id] = [@ EXCEPT !.isAwarded = TRUE]]

\* MongoPortfolioRepository.updateOneById(id, {isAwarded: true, earnedPoints})
updateOneById(id, earnedPoints) ==
    [portfolios EXCEPT ![id] =
        [@ EXCEPT !.isAwarded = TRUE, !.earnedPoints = earnedPoints]]

\* userService.update(userId, {addPoints})
addPoints(userId, points) ==
    [balance EXCEPT ![userId] = @ + points]

\* the award made conditional on the portfolio not being awarded yet
awardTransactionOnce(id, earnedPoints) ==
    IF portfolios[id].isAwarded
    THEN [portfolios |-> portfolios, balance |-> balance]
    ELSE [portfolios |-> updateOneById(id, earnedPoints),
          balance |-> addPoints(portfolios[id].user, earnedPoints)]

\* lines 123-130: the two writes of the award of one portfolio
awardTransaction(id, earnedPoints) ==
    [portfolios |-> updateOneById(id, earnedPoints),
     balance |-> addPoints(portfolios[id].user, earnedPoints)]

\* transactionsManager.useTransaction(fn): the writes of fn become visible
\* together, or fn's error is rethrown and none of them is
useTransaction == {"commit", "abort"}

\* the run moves on to the next offer of its list; failed tells whether the
\* catch of line 136 has logged an error in this run
nextOffer(run, failed) ==
    LET rest == Tail(run.offers)
        Other(p) == portfolios[p].offer # Head(run.offers).id
        left == SelectSeq(run.portfolios, Other)
    IN  [pc |-> IF rest = << >> THEN "idle" ELSE "loop",
         offers |-> rest,
         portfolios |-> IF rest = << >> THEN << >> ELSE left,
         todo |-> IF rest = << >> THEN << >> ELSE grouped(left, Head(rest).id),
         failed |-> run.failed \/ failed]

\* line 95
AwardListOffers(r) ==
    /\ awardRun[r].pc = "idle"
    /\ awardRun' = [awardRun EXCEPT ![r] =
          [AwardIdle EXCEPT !.pc = "listed",
                            !.offers = listOffersWaitingForCompletion]]
    /\ UNCHANGED <<genHistory, currentDay, offers, portfolios, balance, genRun, syncRun,
                   createReq, awardCommits>>

\* lines 97-104
AwardFindPortfolios(r) ==
    /\ awardRun[r].pc = "listed"
    /\ LET run == awardRun[r]
           ids == {run.offers[k].id : k \in 1..Len(run.offers)}
           fetched == find(FALSE, ids)
       IN  awardRun' = [awardRun EXCEPT ![r] =
              IF run.offers = << >> THEN AwardIdle
              ELSE [run EXCEPT !.pc = "loop",
                               !.portfolios = fetched,
                               !.todo = grouped(fetched, Head(run.offers).id)]]
    /\ UNCHANGED <<genHistory, currentDay, offers, portfolios, balance, genRun, syncRun,
                   createReq, awardCommits>>

\* AwardPortfolio with the catch inside the loop over the portfolios: a
\* portfolio whose award fails is logged and the loop goes on with the next
AwardPortfolioContinue(r) ==
    /\ awardRun[r].pc = "loop"
    /\ awardRun[r].todo # << >>
    /\ LET run == awardRun[r]
           offer == Head(run.offers)
           id == Head(run.todo)
           earned == earnedPointsOf(portfolios[id].selectedTokens,
                                    offer.priceChanges)
           skipped == [run EXCEPT !.todo = Tail(run.todo), !.failed = TRUE]
       IN  IF earned.thrown
           THEN /\ awardRun' = [awardRun EXCEPT ![r] = skipped]
                /\ UNCHANGED <<portfolios, balance, awardCommits>>
           ELSE \E outcome \in useTransaction :
                   IF outcome = "commit"
                   THEN /\ portfolios' = awardTransaction(id, earned.points).portfolios
                        /\ balance' = awardTransaction(id, earned.points).balance
                        /\ awardCommits' = [awardCommits EXCEPT ![id] = @ + 1]
                        /\ awardRun' = [awardRun EXCEPT ![r] =
                              [run EXCEPT !.todo = Tail(run.todo)]]
                   ELSE /\ awardRun' = [awardRun EXCEPT ![r] = skipped]
                        /\ UNCHANGED <<portfolios, balance, awardCommits>>
    /\ UNCHANGED <<genHistory, currentDay, offers, genRun, syncRun, createReq>>

\* lines 112-131, one portfolio: its points, then the transaction that sets
\* isAwarded and earnedPoints and credits the user. The transaction commits
\* both writes or throws and leaves neither; a throw ends the offer's batch
\* in the catch of line 136.
AwardPortfolio(r) ==
    /\ awardRun[r].pc = "loop"
    /\ awardRun[r].todo # << >>
    /\ LET run == awardRun[r]
           offer == Head(run.offers)
           id == Head(run.todo)
           earned == earnedPointsOf(portfolios[id].selectedTokens,
                                    offer.priceChanges)
       IN  IF earned.thrown
           THEN /\ awardRun' = [awardRun EXCEPT ![r] = nextOffer(run, TRUE)]
                /\ UNCHANGED <<portfolios, balance, awardCommits>>
           ELSE \E outcome \in useTransaction :
                   IF outcome = "commit"
                   THEN /\ portfolios' = awardTransaction(id, earned.points).portfolios
                        /\ balance' = awardTransaction(id, earned.points).balance
                        /\ awardCommits' = [awardCommits EXCEPT ![id] = @ + 1]
                        /\ awardRun' = [awardRun EXCEPT ![r] =
                              [run EXCEPT !.todo = Tail(run.todo)]]
                   ELSE /\ awardRun' = [awardRun EXCEPT ![r] =
                              nextOffer(run, TRUE)]
                        /\ UNCHANGED <<portfolios, balance, awardCommits>>
    /\ UNCHANGED <<genHistory, currentDay, offers, genRun, syncRun, createReq>>

\* the end of an offer's batch without its markOfferCompleted
AwardSkipCompleted(r) ==
    /\ awardRun[r].pc = "loop"
    /\ awardRun[r].todo = << >>
    /\ awardRun' = [awardRun EXCEPT ![r] = nextOffer(awardRun[r], FALSE)]
    /\ UNCHANGED <<genHistory, currentDay, offers, portfolios, balance, genRun, syncRun,
                   createReq, awardCommits>>

\* lines 133-135 and markOfferCompleted
AwardMarkCompleted(r) ==
    /\ awardRun[r].pc = "loop"
    /\ awardRun[r].todo = << >>
    /\ LET run == awardRun[r]
           id == Head(run.offers).id
       IN  /\ offers' = markOfferCompleted(id)
           /\ awardRun' = [awardRun EXCEPT ![r] =
                 nextOffer(run, FALSE)]
    /\ UNCHANGED <<genHistory, currentDay, portfolios, balance, genRun,
                   syncRun, createReq, awardCommits>>

----------------------------------------------------------------------------
Init ==
    /\ currentDay = 0
    /\ offers = << >>
    /\ portfolios = << >>
    /\ balance = [u \in Users |-> DefaultBalance]
    /\ genRun = [r \in GenIds |-> GenIdle]
    /\ syncRun = [r \in SyncIds |-> SyncIdle]
    /\ awardRun = [r \in AwardIds |-> AwardIdle]
    /\ createReq = [c \in CreateIds |-> CreateIdle]
    /\ awardCommits = << >>
    /\ genHistory = [ran |-> FALSE, lastRunDay |-> 0, everyDay |-> TRUE]

Generate(ids, offsets, maxOffers) ==
    \/ \E r \in ids : GenFindLatest(r, maxOffers)
    \/ \E r \in ids : GenCreateMany(r, offsets, maxOffers)

Sync(ids, patterns) ==
    \/ \E r \in ids : SyncFind(r)
    \/ \E r \in ids : SyncOffer(r, patterns)

Award(ids) ==
    \/ \E r \in ids : AwardListOffers(r)
    \/ \E r \in ids : AwardFindPortfolios(r)
    \/ \E r \in ids : AwardPortfolio(r)
    \/ \E r \in ids : AwardMarkCompleted(r)

Create(ids) ==
    \/ \E c \in ids : CreateValidate(c)
    \/ \E c \in ids : CreateExists(c)
    \/ \E c \in ids : CreateInsert(c)

\* the whole system: every job may overlap with itself, requests are
\* concurrent
Next ==
    \/ Tick(MaxDay)
    \/ Generate(GenIds, SampleOffsets, MaxOffers)
    \/ Sync(SyncIds, PricePatterns)
    \/ Award(AwardIds)
    \/ Create(CreateIds)

Spec == Init /\ [][Next]_vars

(* The specifications below are Spec with fewer processes: every behaviour   *)
(* of one of them is a behaviour of Spec.                                    *)

\* no run of a cron job starts before the previous run of that job has ended
NextSeq ==
    \/ Tick(MaxDay)
    \/ Generate({"g1"}, SampleOffsets, MaxOffers)
    \/ Sync({"s1"}, PricePatterns)
    \/ Award({"a1"})
    \/ Create({"c1"})

SpecSeq == Init /\ [][NextSeq]_vars

\* overlapping awardPortfolios runs, one sample and one price movement
NextAward ==
    \/ Tick(MaxDay)
    \/ Generate({"g1"}, {0}, MaxOffers)
    \/ Sync({"s1"}, {1})
    \/ Award(AwardIds)
    \/ Create({"c1"})

SpecAward == Init /\ [][NextAward]_vars

\* overlapping syncOffersPrices runs next to an awardPortfolios run; no
\* portfolio exists, so the loop of lines 112-131 has nothing to do
NextSync ==
    \/ Tick(MaxDay)
    \/ Generate({"g1"}, SampleOffsets, MaxOffers)
    \/ Sync(SyncIds, PricePatterns)
    \/ AwardListOffers("a1")
    \/ AwardFindPortfolios("a1")
    \/ AwardMarkCompleted("a1")

SpecSync == Init /\ [][NextSync]_vars

\* concurrent create requests
NextCreate ==
    \/ Tick(MaxDay)
    \/ Generate({"g1"}, SampleOffsets, MaxOffers)
    \/ Create(CreateIds)

SpecCreate == Init /\ [][NextCreate]_vars

\* generateOffers alone over a long stretch of days, one run at a time
NextGen ==
    \/ Tick(MaxGenDay)
    \/ Generate({"g1"}, {0}, MaxGenOffers)

SpecGen == Init /\ [][NextGen]_vars

\* the same with overlapping generateOffers runs
NextGenOverlap ==
    \/ Tick(MaxGenDay)
    \/ Generate(GenIds, {0}, MaxGenOffers)

SpecGenOverlap == Init /\ [][NextGenOverlap]_vars

\* one run of every job at a time, one sample and one price movement, with
\* the scheduling of the claim about progress
NextLive ==
    \/ Tick(MaxDay)
    \/ Generate({"g1"}, {0}, MaxOffers)
    \/ Sync({"s1"}, {1})
    \/ Award({"a1"})
    \/ Create({"c1"})

\* the step of run r that writes an offer as priced: the gateway had a price
\* for each of its tokens
PricesAnOffer(r) ==
    /\ SyncOffer(r, {1})
    /\ offers' # offers

\* the step of run r in which an award transaction commits
CommitsAnAward(r) ==
    /\ AwardPortfolio(r)
    /\ awardCommits' # awardCommits

\* time passes. @Cron: the scheduler starts syncOffersPrices and
\* awardPortfolios again and again and a run that has started goes on to its
\* end. The gateway has, time and again, the prices of the offer it is asked
\* for, and an award transaction that is tried time and again commits. An
\* offer is priced once and a portfolio's award commits once here, so this
\* is the same for every single offer and portfolio.
Fairness ==
    /\ WF_vars(Tick(MaxDay))
    /\ WF_vars(SyncFind("s1"))
    /\ WF_vars(SyncOffer("s1", {1}))
    /\ WF_vars(AwardListOffers("a1"))
    /\ WF_vars(AwardFindPortfolios("a1"))
    /\ WF_vars(AwardPortfolio("a1"))
    /\ WF_vars(AwardMarkCompleted("a1"))
    /\ SF_vars(PricesAnOffer("s1"))
    /\ SF_vars(CommitsAnAward("a1"))

SpecLive == Init /\ [][NextLive]_vars /\ Fairness

----------------------------------------------------------------------------
(* Helpers of the properties *)

RECURSIVE sumTo(_, _)
sumTo(values, n) == IF n = 0 THEN 0 ELSE values[n] + sumTo(values, n - 1)

\* the earnedPoints of a user's awarded portfolios, added up
awardedPoints(u) ==
    sumTo([p \in PortfolioIds |->
              IF portfolios[p].user = u /\ portfolios[p].isAwarded
              THEN portfolios[p].earnedPoints ELSE 0],
          Len(portfolios))

\* what the committed award transactions of a user's portfolios add up to
committedPoints(u) ==
    sumTo([p \in PortfolioIds |->
              IF portfolios[p].user = u
              THEN awardCommits[p] * portfolios[p].earnedPoints ELSE 0],
          Len(portfolios))

statusRank(status) ==
    IF status = WaitingForPricing THEN 0
    ELSE IF status = WaitingForCompletion THEN 1 ELSE 2

----------------------------------------------------------------------------
(* C1: when awardPortfolios runs do not overlap, a portfolio that has        *)
(* isAwarded = true is never written again and no award transaction commits *)
(* for it again; the balance changes only in a step that flips one           *)
(* portfolio from not awarded to awarded, by that portfolio's earnedPoints.  *)
C1_AwardedAtMostOnce ==
    [][/\ \A p \in PortfolioIds :
             portfolios[p].isAwarded =>
                /\ portfolios'[p] = portfolios[p]
                /\ awardCommits'[p] = awardCommits[p]
       /\ balance' # balance =>
             \E p \in PortfolioIds :
                /\ ~portfolios[p].isAwarded
                /\ portfolios'[p].isAwarded
                /\ balance' = [balance EXCEPT ![portfolios[p].user] =
                                  @ + portfolios'[p].earnedPoints]]_vars

\* a later run is at work on the offer of a portfolio that an earlier run
\* awarded: the portfolio is not in the list the run fetched
C1_Witness ==
    \E r \in AwardIds, p \in PortfolioIds :
        /\ portfolios[p].isAwarded
        /\ awardRun[r].pc = "loop"
        /\ awardRun[r].todo # << >>
        /\ Head(awardRun[r].offers).id = portfolios[p].offer
        /\ \A k \in 1..Len(awardRun[r].portfolios) : awardRun[r].portfolios[k] # p

(* C2: every persisted portfolio has one selected token per pair of its      *)
(* offer, and each is the first or the second token of the pair at its       *)
(* position.                                                                 *)
C2_SelectedTokensValid ==
    \A p \in PortfolioIds :
        LET tokenOffers == offers[portfolios[p].offer].tokenOffers
            selectedTokens == portfolios[p].selectedTokens
        IN  /\ Len(selectedTokens) = Len(tokenOffers)
            /\ \A i \in 1..Len(selectedTokens) :
                  selectedTokens[i] \in {tokenOffers[i].firstToken,
                                         tokenOffers[i].secondToken}

(* C3: when awardPortfolios runs do not overlap, every user's balance is the *)
(* default balance plus the earnedPoints of the user's awarded portfolios.   *)
C3_BalanceMatchesAwards ==
    \A u \in Users : balance[u] = DefaultBalance + awardedPoints(u)

\* an offer of two portfolios: one awarded with points that are not zero and
\* credited, the award of the other failed and left no trace
C3_Witness ==
    \E p, q \in PortfolioIds :
        /\ portfolios[p].offer = portfolios[q].offer
        /\ portfolios[p].isAwarded
        /\ portfolios[p].earnedPoints # 0
        /\ balance[portfolios[p].user] = DefaultBalance + portfolios[p].earnedPoints
        /\ ~portfolios[q].isAwarded
        /\ balance[portfolios[q].user] = DefaultBalance
        /\ \E r \in AwardIds : awardRun[r].failed /\ awardRun[r].pc = "idle"

(* C4: with overlapping awardPortfolios runs every committed award           *)
(* transaction credits the user, also the second one for the same portfolio: *)
(* a balance is the default balance plus, for each portfolio of the user,    *)
(* its earnedPoints times the number of transactions committed for it.       *)
C4_EveryCommitCredits ==
    \A u \in Users : balance[u] = DefaultBalance + committedPoints(u)

\* one portfolio, awarded by two runs, its points credited twice
C4_Witness ==
    \E p \in PortfolioIds :
        /\ awardCommits[p] = 2
        /\ portfolios[p].earnedPoints # 0
        /\ \A q \in PortfolioIds : q # p => portfolios[q].user # portfolios[p].user
        /\ balance[portfolios[p].user]
              = DefaultBalance + 2 * portfolios[p].earnedPoints

(* C5: there is at most one portfolio per (user, offer) pair, whatever the   *)
(* interleaving of create requests.                                          *)
C5_OnePortfolioPerUserAndOffer ==
    \A p, q \in PortfolioIds :
        (portfolios[p].user = portfolios[q].user
            /\ portfolios[p].offer = portfolios[q].offer) => p = q

\* a step in which run r leaves the offer at the head of its list behind
leavesOffer(r) ==
    /\ awardRun[r].pc = "loop"
    /\ awardRun'[r].offers = Tail(awardRun[r].offers)

pricesOffer(r) ==
    /\ syncRun[r].pc = "loop"
    /\ syncRun'[r] # syncRun[r]

(* C7: a syncOffersPrices step in which a lookup returned the absence signal *)
(* writes no offer; the offer it dealt with, when it was WaitingForPricing,  *)
(* still is, without any pricingChanges entry, and the next run's query      *)
(* finds it again.                                                           *)
C7_AbsentLeavesOfferUnpriced ==
    [][\A r \in SyncIds :
          (pricesOffer(r) /\ syncRun'[r].shouldSkipOffer) =>
             LET id == Head(syncRun[r].offers)
             IN  /\ offers' = offers
                 /\ offers[id].offerStatus = WaitingForPricing =>
                       /\ offers'[id].pricingChanges = EmptyMap
                       /\ offers'[id].day <= currentDay']_vars

\* a run has met the absence signal and every offer it could have dealt with
\* is still waiting for its prices
C7_Witness ==
    /\ Len(offers) > 0
    /\ \E r \in SyncIds : syncRun[r].shouldSkipOffer /\ syncRun[r].pc = "idle"
    /\ \A o \in OfferIds :
          offers[o].day <= currentDay =>
             /\ offers[o].offerStatus = WaitingForPricing
             /\ offers[o].pricingChanges = EmptyMap

(* C8: every offer whose status is WaitingForCompletion or Completed has a   *)
(* pricingChanges entry for every token of its tokenOffers, and an offer     *)
(* that is WaitingForPricing has none.                                       *)
C8_PricedBeforeCompletion ==
    \A o \in OfferIds :
        IF offers[o].offerStatus = WaitingForPricing
        THEN offers[o].pricingChanges = EmptyMap
        ELSE OfferTokens(offers[o].tokenOffers) \subseteq DOMAIN offers[o].pricingChanges

\* a priced offer that waits for completion next to a completed one
C8_Witness ==
    \E o, c \in OfferIds :
        /\ offers[o].offerStatus = WaitingForCompletion
        /\ DOMAIN offers[o].pricingChanges = OfferTokens(offers[o].tokenOffers)
        /\ offers[c].offerStatus = Completed

(* C9: a request passes the checks of create only when its offer's day is    *)
(* the current day plus one, and every portfolio is inserted by a request    *)
(* whose offer's day was the day of its check plus one.                      *)
C9_CreatedOnlyForNextDay ==
    [][/\ \A c \in CreateIds :
             (createReq[c].pc = "idle" /\ createReq'[c].pc = "validated") =>
                /\ offers[createReq'[c].offerId].day = currentDay + 1
                /\ createReq'[c].checkedDay = currentDay
       /\ Len(portfolios') > Len(portfolios) =>
             \E c \in CreateIds :
                /\ createReq[c].pc = "checked"
                /\ createReq'[c].pc = "idle"
                /\ portfolios'[Len(portfolios')].offer = createReq[c].offerId
                /\ offers[createReq[c].offerId].day = createReq[c].checkedDay + 1]_vars

\* a portfolio of an offer whose day has begun since the request was checked
C9_Witness ==
    \E p \in PortfolioIds : offers[portfolios[p].offer].day = currentDay

(* C10: an offer's status never moves back, and once an offer has left       *)
(* WaitingForPricing its pricingChanges do not change.                       *)
C10_OfferOnlyMovesForward ==
    [][\A o \in OfferIds :
          /\ statusRank(offers'[o].offerStatus) >= statusRank(offers[o].offerStatus)
          /\ offers[o].offerStatus # WaitingForPricing =>
                offers'[o].pricingChanges = offers[o].pricingChanges]_vars

----------------------------------------------------------------------------
(* Helpers of the generateOffers properties *)

\* a step in which run r ends: lines 83-108
endsRun(r) ==
    /\ genRun[r].pc = "found"
    /\ genRun'[r].pc = "idle"

offerDays == {offers[o].day : o \in OfferIds}

\* what run r read from findLatest is still the latest offer of the store
readIsLatest(r) ==
    /\ genRun[r].hasLast = (Len(offers) > 0)
    /\ genRun[r].hasLast => genRun[r].lastDay = findLatestDay

(* C11: a generateOffers run that ends on day C, having read the greatest   *)
(* offer day D from findLatest, persists nothing and changes no offer if     *)
(* D + 1 - C > MAX_DAYS_THRESHOLD; otherwise, and when findLatest found no   *)
(* offer, it adds offers and leaves the existing offers as they are. When    *)
(* what the run read is still the latest offer, as it is when runs do not    *)
(* overlap, D is the greatest offer day of the store.                        *)
C11_DayGapGuard ==
    [][\A r \in GenIds :
          endsRun(r) =>
             /\ IF genRun[r].hasLast
                     /\ genRun[r].lastDay + 1 - currentDay > MAX_DAYS_THRESHOLD
                THEN offers' = offers
                ELSE /\ Len(offers') > Len(offers)
                     /\ SubSeq(offers', 1, Len(offers)) = offers
             /\ readIsLatest(r) =>
                   IF Len(offers) > 0
                        /\ findLatestDay + 1 - currentDay > MAX_DAYS_THRESHOLD
                   THEN offers' = offers
                   ELSE Len(offers') > Len(offers)]_vars

\* a run has ended today and persisted nothing: the one batch of the store
\* was generated on an earlier day
C11_Witness ==
    /\ Len(offers) = OFFERS_TO_GENERATE + 1
    /\ offers[1].day < currentDay
    /\ genHistory.ran
    /\ genHistory.lastRunDay = currentDay
    /\ findLatestDay + 1 - currentDay > MAX_DAYS_THRESHOLD

(* C12: no two offers have the same day, whatever the interleaving of        *)
(* generateOffers runs, overlapping runs included.                           *)
C12_NoDuplicateDays ==
    \A o, q \in OfferIds : offers[o].day = offers[q].day => o = q

----------------------------------------------------------------------------
(* Helpers of the awardPortfolios properties *)

\* the sum over the positions of selectedTokens of the token's price change
RECURSIVE sumOfChanges(_, _, _)
sumOfChanges(selectedTokens, pricingChanges, n) ==
    IF n = 0 THEN 0
    ELSE pricingChanges[selectedTokens[n]]
            + sumOfChanges(selectedTokens, pricingChanges, n - 1)

\* a step in which portfolio p becomes awarded
awarded(p) ==
    /\ ~portfolios[p].isAwarded
    /\ portfolios'[p].isAwarded

(* C13: a step that awards a portfolio writes as its earnedPoints the sum,   *)
(* over the positions of its selectedTokens, of the pricingChanges of its    *)
(* offer for the token at that position, and adds the same amount to the     *)
(* balance of the portfolio's user and to no other balance.                  *)
C13_PointsAreSumOfChanges ==
    [][\A p \in PortfolioIds :
          awarded(p) =>
             LET selectedTokens == portfolios[p].selectedTokens
                 pricingChanges == offers[portfolios[p].offer].pricingChanges
                 sum == sumOfChanges(selectedTokens, pricingChanges,
                                     Len(selectedTokens))
             IN  /\ portfolios'[p].earnedPoints = sum
                 /\ balance' = [balance EXCEPT ![portfolios[p].user] = @ + sum]]_vars

\* two awarded portfolios: one of a token selected at two positions, that
\* earned something, and one that lost points
C13_Witness ==
    \E p, q \in PortfolioIds :
        /\ portfolios[p].isAwarded
        /\ portfolios[p].selectedTokens[1]
              = portfolios[p].selectedTokens[Len(portfolios[p].selectedTokens)]
        /\ portfolios[p].earnedPoints > 0
        /\ portfolios[q].isAwarded
        /\ portfolios[q].earnedPoints < 0

\* a step in which the award of a portfolio fails in run r: the run leaves
\* the offer with portfolios still to do
failsOn(r) ==
    /\ leavesOffer(r)
    /\ awardRun[r].todo # << >>

\* the members of a list
Range(list) == {list[k] : k \in 1..Len(list)}

(* C14: when awardPortfolios runs do not overlap, a step in which the award  *)
(* of a portfolio of offer O fails writes nothing: O stays                   *)
(* WaitingForCompletion, the failing portfolio and those after it in the     *)
(* loop stay not awarded and uncredited, and the run has neither O nor a     *)
(* portfolio of O left in its lists. A run that sets an offer to Completed   *)
(* has awarded every portfolio it fetched for the offer; a portfolio that    *)
(* is awarded stays awarded; and a run fetches exactly the portfolios of     *)
(* its offers that are not awarded.                                          *)
C14_FailureLeavesOfferForRetry ==
    [][/\ \A r \in AwardIds :
             failsOn(r) =>
                LET O == Head(awardRun[r].offers).id
                IN  /\ offers' = offers
                    /\ portfolios' = portfolios
                    /\ balance' = balance
                    /\ offers'[O].offerStatus = WaitingForCompletion
                    /\ \A p \in Range(awardRun[r].todo) :
                          ~portfolios'[p].isAwarded
                    /\ \A k \in 1..Len(awardRun'[r].offers) :
                          awardRun'[r].offers[k].id # O
                    /\ \A p \in Range(awardRun'[r].portfolios)
                                 \cup Range(awardRun'[r].todo) :
                          portfolios[p].offer # O
       /\ \A r \in AwardIds, o \in OfferIds :
             (leavesOffer(r) /\ Head(awardRun[r].offers).id = o
                 /\ offers'[o].offerStatus = Completed) =>
                \A p \in Range(awardRun[r].portfolios) :
                   portfolios[p].offer = o => portfolios'[p].isAwarded
       /\ \A p \in PortfolioIds :
             portfolios[p].isAwarded => portfolios'[p].isAwarded
       /\ \A r \in AwardIds :
             (awardRun[r].pc = "listed" /\ awardRun'[r].pc = "loop") =>
                Range(awardRun'[r].portfolios)
                   = {p \in PortfolioIds :
                        /\ ~portfolios[p].isAwarded
                        /\ portfolios[p].offer
                              \in {awardRun[r].offers[k].id :
                                      k \in 1..Len(awardRun[r].offers)}}]_vars

\* a run has ended in which the award of q failed on a token that has no
\* price change: q and its user's balance are untouched, the offer waits for
\* the next run, and p, before q in the loop, is awarded and credited
C14_Witness ==
    \E r \in AwardIds, p, q \in PortfolioIds :
        /\ p < q
        /\ portfolios[p].offer = portfolios[q].offer
        /\ portfolios[p].user # portfolios[q].user
        /\ awardRun[r].pc = "idle"
        /\ awardRun[r].failed
        /\ portfolios[p].isAwarded
        /\ awardCommits[p] = 1
        /\ ~portfolios[q].isAwarded
        /\ awardCommits[q] = 0
        /\ BadToken \in Range(portfolios[q].selectedTokens)
        /\ balance[portfolios[q].user] = DefaultBalance
        /\ offers[portfolios[q].offer].offerStatus = WaitingForCompletion

----------------------------------------------------------------------------
(* Helpers of the syncOffersPrices properties *)

\* the gateway has a price for every token of the offer
pricesAll(tokenOffers, response) ==
    \A t \in OfferTokens(tokenOffers) : response[t].kind = "price"

\* the offer is written as priced: it waits for completion and has the
\* price change of each of its tokens, no more
fullyPriced(offer) ==
    /\ offer.offerStatus = WaitingForCompletion
    /\ DOMAIN offer.pricingChanges = OfferTokens(offer.tokenOffers)

(* C15: a syncOffersPrices run lists the offers that are WaitingForPricing   *)
(* with day <= currentDay. Each step of its loop deals with the offer at     *)
(* the head of the list and goes on with the rest of the list whatever the   *)
(* outcome: it writes that offer as WaitingForCompletion with a price change *)
(* for each of its tokens, or writes nothing; no other offer changes. The    *)
(* lookups of an offer for whose tokens the gateway has all the prices end   *)
(* in the update, with the percentage change of every token. An offer with   *)
(* day > currentDay is never in a run's list and is changed by no step.      *)
C15_SyncIsolatesOffers ==
    [][/\ \A r \in SyncIds :
             (syncRun[r].pc = "idle" /\ syncRun'[r] # syncRun[r]) =>
                Range(syncRun'[r].offers)
                   = {o \in OfferIds : /\ offers[o].offerStatus = WaitingForPricing
                                       /\ offers[o].day <= currentDay}
       /\ \A r \in SyncIds :
             pricesOffer(r) =>
                LET id == Head(syncRun[r].offers)
                IN  /\ syncRun'[r].offers = Tail(syncRun[r].offers)
                    /\ syncRun'[r].pc = "idle" <=> syncRun'[r].offers = << >>
                    /\ \A o \in OfferIds \ {id} : offers'[o] = offers[o]
                    /\ fullyPriced(offers'[id]) \/ offers'[id] = offers[id]
                    /\ syncRun'[r].shouldSkipOffer => offers'[id] = offers[id]
                    /\ \A response \in GatewayResponses(offers[id].tokenOffers,
                                                         PricePatterns) :
                          LET tokenOffers == offers[id].tokenOffers
                              result == priceOffer(tokenOffers, response)
                          IN  /\ result.update = pricesAll(tokenOffers, response)
                              /\ result.update =>
                                    /\ DOMAIN result.pricingChanges
                                          = OfferTokens(tokenOffers)
                                    /\ \A t \in DOMAIN result.pricingChanges :
                                          result.pricingChanges[t]
                                             = calculatePercentageChange(
                                                  response[t].startDayPrice,
                                                  response[t].endDayPrice)
       /\ \A o \in OfferIds :
             /\ offers[o].day > currentDay => offers'[o] = offers[o]
             /\ \A r \in SyncIds :
                   o \in Range(syncRun[r].offers) => offers[o].day <= currentDay
      ]_vars

\* the runs have ended; an offer whose day has come is still waiting for its
\* prices, an offer after it in the list is priced in full, and an offer
\* whose day has not come is untouched
C15_Witness ==
    /\ \A r \in SyncIds : syncRun[r].pc = "idle"
    /\ \E o, q, n \in OfferIds :
          /\ o < q
          /\ offers[o].day <= currentDay
          /\ offers[o].offerStatus = WaitingForPricing
          /\ offers[q].day <= currentDay
          /\ fullyPriced(offers[q])
          /\ offers[n].day > currentDay
          /\ offers[n].offerStatus = WaitingForPricing

----------------------------------------------------------------------------
\* the return of lines 87-89 is taken by run r
skipsRun(r) ==
    /\ genRun[r].hasLast
    /\ genRun[r].lastDay + 1 - currentDay > MAX_DAYS_THRESHOLD

(* C16: a generateOffers run that does not return at the day-gap guard adds  *)
(* exactly 8 offers, one more than OFFERS_TO_GENERATE = 7: their days are    *)
(* nextDay, nextDay + 1, ..., nextDay + 7, where nextDay is one past the day *)
(* findLatest returned, or the current day when it returned nothing; each    *)
(* has exactly 6 pairs of tokens, 12 different tokens in all.               *)
C16_BatchOfEight ==
    [][\A r \in GenIds :
          (endsRun(r) /\ ~skipsRun(r)) =>
             LET nextDay == IF genRun[r].hasLast THEN genRun[r].lastDay + 1
                            ELSE currentDay
                 added == SubSeq(offers', Len(offers) + 1, Len(offers'))
             IN  /\ SubSeq(offers', 1, Len(offers)) = offers
                 /\ Len(added) = 8
                 /\ Len(added) = OFFERS_TO_GENERATE + 1
                 /\ \A k \in 1..Len(added) :
                       /\ added[k].day = nextDay + k - 1
                       /\ Len(added[k].tokenOffers) = 6
                       /\ Len(added[k].tokenOffers) = MAX_TOKEN_OFFERS
                       /\ Cardinality(OfferTokens(added[k].tokenOffers)) = 12]_vars

\* two batches, the second begun one past the last day of the first
C16_Witness ==
    /\ Len(offers) = 2 * (OFFERS_TO_GENERATE + 1)
    /\ \A k \in 1..(Len(offers) - 1) : offers[k + 1].day = offers[k].day + 1
    /\ offers[Len(offers)].day = offers[1].day + 2 * OFFERS_TO_GENERATE + 1
    /\ \A r \in GenIds : genRun[r].pc = "idle"

----------------------------------------------------------------------------
(* C17: when no award has failed, every portfolio of an offer whose status   *)
(* is Completed has isAwarded = true, whatever the interleaving of create,   *)
(* syncOffersPrices and awardPortfolios steps.                               *)
C17_NoPortfolioBehindCompleted ==
    (/\ \A r \in AwardIds : ~awardRun[r].failed
     /\ \A p \in PortfolioIds :
           BadToken \notin Range(portfolios[p].selectedTokens))
       => \A p \in PortfolioIds :
             offers[portfolios[p].offer].offerStatus = Completed
                => portfolios[p].isAwarded

----------------------------------------------------------------------------
(* C18: under the fair scheduling of syncOffersPrices and awardPortfolios,   *)
(* with a gateway that has the prices in the end and award transactions      *)
(* that commit in the end, there is a time from which on every portfolio of  *)
(* an offer whose day has come is awarded and every offer whose day has come *)
(* is Completed. (The clock of the model stops at MaxDay; a portfolio is     *)
(* created for an offer of the next day.)                                    *)
C18_AllAwardedAndCompleted ==
    <>[](/\ \A p \in PortfolioIds :
               offers[portfolios[p].offer].day <= currentDay
                  => portfolios[p].isAwarded
         /\ \A o \in OfferIds :
               offers[o].day <= currentDay
                  => offers[o].offerStatus = Completed)

----------------------------------------------------------------------------
(* C19: a generateOffers run that ends on day C persists no offer with a    *)
(* day greater than C + 10, which is C + MAX_DAYS_THRESHOLD +                *)
(* OFFERS_TO_GENERATE; from an empty store, with runs that do not overlap,   *)
(* the greatest offer day is never more than 10 days ahead of the current    *)
(* day.                                                                      *)
C19_BoundedBacklog ==
    [][/\ \A r \in GenIds :
             endsRun(r) =>
                \A o \in (Len(offers) + 1)..Len(offers') :
                   /\ offers'[o].day <= currentDay + 10
                   /\ offers'[o].day
                         <= currentDay + MAX_DAYS_THRESHOLD + OFFERS_TO_GENERATE
       /\ \A o \in 1..Len(offers') : offers'[o].day - currentDay' <= 10]_vars

\* the backlog at its bound: the latest offer is 10 days ahead
C19_Witness ==
    /\ Len(offers) > 0
    /\ findLatestDay - currentDay = 10
    /\ genHistory.lastRunDay = currentDay

----------------------------------------------------------------------------
\* the offer days are the days from the first to the last, each once
gapFree(stored) ==
    LET days == {stored[o].day : o \in 1..Len(stored)}
    IN  /\ Cardinality(days) = Len(stored)
        /\ \A d \in days, e \in days : \A between \in d..e : between \in days

(* C20: from an empty store and with runs that do not overlap, if since the  *)
(* first run a generateOffers run has ended on every day, then in the state  *)
(* a run leaves on day C the offer days are a gap-free interval that has     *)
(* every day from C to C + MAX_DAYS_THRESHOLD in it, the day C + 1 that      *)
(* create accepts among them. A run that ends on day C and has read a        *)
(* latest offer more than 8 days before C leaves no offer for day C + 1.     *)
C20_NextDayOfferExists ==
    [][/\ (genHistory'.ran /\ genHistory'.everyDay
              /\ genHistory'.lastRunDay = currentDay') =>
             LET days == {offers'[o].day : o \in 1..Len(offers')}
             IN  /\ gapFree(offers')
                 /\ \A d \in currentDay'..(currentDay' + MAX_DAYS_THRESHOLD) :
                       d \in days
                 /\ currentDay' + 1 \in days
       /\ \A r \in GenIds :
             (endsRun(r) /\ genRun[r].hasLast
                 /\ genRun[r].lastDay < currentDay - 8) =>
                \A o \in 1..Len(offers') : offers'[o].day # currentDay + 1]_vars

\* a run has ended on every day so far, the second batch has been generated
\* and today's run has found nothing to do
C20_Witness ==
    /\ genHistory.ran
    /\ genHistory.everyDay
    /\ genHistory.lastRunDay = currentDay
    /\ Len(offers) = 2 * (OFFERS_TO_GENERATE + 1)
    /\ offers[1].day = 0
    /\ findLatestDay + 1 - currentDay > MAX_DAYS_THRESHOLD
    /\ \E o \in OfferIds : offers[o].day = currentDay + 1
====
